---------------------------- MODULE Spec2Model ----------------------------
(***************************************************************************)
(* Model of the symbolic-to-continuous mapping code of melosynth:          *)
(*   src/Sompyler/score/measure.py          Measure, VoiceBoundMeasure     *)
(*   src/Sompyler/synthesizer/shape/point.py  Point, Point2D, Point3D      *)
(*   src/modulation.py                      Modulation                     *)
(*                                                                         *)
(* Python values are modelled as follows.                                  *)
(*   - An optional argument is a record [kind, v]: kind "none" is None,    *)
(*     "int" an integer <<n>>, "str" the string "a-b" as <<a, b>>, "list"  *)
(*     the list [a, b] and "tuple" the tuple (a, b).                       *)
(*   - A call's outcome is a record [raised, exc, value]: either the       *)
(*     exception class that escapes the call, or the returned value.       *)
(*   - None, and a slot that was never assigned, is the empty tuple.       *)
(*   - Times are exact multiples of a quarter second (60.0 / 240), the     *)
(*     tempi drawn are those for which 60.0 / ticks_per_minute is such a   *)
(*     multiple; ratios b / a are drawn with a dividing b.                 *)
(***************************************************************************)
EXTENDS Integers, Sequences, FiniteSets, TLC

VARIABLES
    measures,   \* the Measure objects built so far, in chain order
    result,     \* the last call: what was called, its arguments, its outcome
    iterLog,    \* one entry per iteration of Measure.__iter__
    mod         \* the Modulation object, once constructed, with the
                \* frequency and factor its constructor was given

vars == <<measures, result, iterLog, mod>>

---------------------------------------------------------------------------
(* Python values *)

None == <<>>

NoArg == [kind |-> "none", v |-> <<>>]

IntArg(n) == [kind |-> "int", v |-> <<n>>]

StrArg(a, b) == [kind |-> "str", v |-> <<a, b>>]

ListArg(a, b) == [kind |-> "list", v |-> <<a, b>>]

TupleArg(a, b) == [kind |-> "tuple", v |-> <<a, b>>]

\* bool(x) of an optional argument: None and 0 are false, a non-empty
\* string, list or tuple is true.
Truthy(x) ==
    CASE x.kind = "none" -> FALSE
      [] x.kind = "int"  -> x.v[1] # 0
      [] OTHER           -> TRUE

Return(v) == [raised |-> FALSE, exc |-> "none", value |-> v]

Raise(e) == [raised |-> TRUE, exc |-> e, value |-> None]

RECURSIVE Sum(_)
Sum(s) == IF s = <<>> THEN 0 ELSE Head(s) + Sum(Tail(s))

RECURSIVE Pow(_, _)
Pow(b, e) == IF e = 0 THEN 1 ELSE b * Pow(b, e - 1)

\* factor ** (1.0 / cumlen), for the factors and lengths drawn here, which
\* have an integral root.
Root(f, n) == CHOOSE r \in 1..f : Pow(r, n) = f

---------------------------------------------------------------------------
(* measure.py: stress_range, Measure *)

\* stress_range(stress): an int gives (n, 1), a string or list (a, b/a); a
\* tuple matches neither branch and the function falls off its end.
stress_range(stress) ==
    CASE stress.kind = "int"   -> <<stress.v[1], 1>>
      [] stress.kind = "tuple" -> None
      [] OTHER                 -> <<stress.v[1], stress.v[2] \div stress.v[1]>>

\* Stressor(stress_pattern.split(";")).cumlen: the pattern is its list of
\* segment spans, the cumulative length their sum.
Stressor(pattern) == [cumlen |-> Sum(pattern)]

\* seconds(ticks) without its first statement, ticks += offset.
seconds_NoOffset(self, offset, ticks) ==
    LET spt        == self.seconds_per_tick[1]
        spt_factor == self.seconds_per_tick[2]
        r          == Root(spt_factor, self.stressor.cumlen)
    IN  spt * (IF spt_factor = 1 THEN ticks ELSE (Pow(r, ticks) - 1) \div (r - 1))

\* The local function seconds(ticks) of calculate_seconds_from_ticks.
seconds(self, offset, ticks) ==
    LET spt        == self.seconds_per_tick[1]
        spt_factor == self.seconds_per_tick[2]
        t          == ticks + offset
        r          == Root(spt_factor, self.stressor.cumlen)
    IN  spt * (IF spt_factor = 1 THEN t ELSE (Pow(r, t) - 1) \div (r - 1))

\* calculate_seconds_from_ticks adding the measure's own offset to the start
\* it returns.
calculate_seconds_from_ticks_Absolute(self, offset, length) ==
    IF offset > self.length THEN Raise("NameError")
    ELSE IF offset < self.measure_cut /\ self.measure_cut > 0
        THEN Raise("TypeError")
    ELSE IF self.seconds_per_tick = None THEN Raise("AttributeError")
    ELSE LET offset_s == seconds(self, offset, 0)
         IN  IF Truthy(length)
             THEN Return(<<self.offset + offset_s,
                           seconds(self, offset, length.v[1]) - offset_s>>)
             ELSE Return(<<self.offset + offset_s>>)

\* Measure.calculate_seconds_from_ticks(offset, length=None).  The first
\* raise evaluates the undefined name max_offset, the second concatenates a
\* str and an int; reading a seconds_per_tick slot that was never assigned
\* is an AttributeError.
calculate_seconds_from_ticks(self, offset, length) ==
    IF offset > self.length THEN Raise("NameError")
    ELSE IF offset < self.measure_cut /\ self.measure_cut > 0
        THEN Raise("TypeError")
    ELSE IF self.seconds_per_tick = None THEN Raise("AttributeError")
    ELSE LET offset_s == seconds(self, offset, 0)
         IN  IF Truthy(length)
             THEN Return(<<offset_s, seconds(self, offset, length.v[1]) - offset_s>>)
             ELSE Return(<<offset_s>>)

\* self.length of Measure.__init__
MeasureLength(cumlen, measure_cut) ==
    cumlen - (IF measure_cut < 0 THEN -measure_cut ELSE 0)

\* The seconds_per_tick assignment of Measure.__init__, given that
\* ticks_per_minute is not None.  A string is split into tickets_per_minute
\* but the string itself is then indexed and divided; a tuple matches no
\* branch and the slot stays unassigned.
TempoFromArg(tpm) ==
    CASE tpm.kind = "int"   -> Return(<<240 \div tpm.v[1], 1>>)
      [] tpm.kind = "str"   -> Raise("TypeError")
      [] tpm.kind = "tuple" -> Return(None)
      [] OTHER              -> Return(<<240 \div tpm.v[1], tpm.v[1] \div tpm.v[2]>>)

\* Measure.__init__(structure, stage, previous, measure_cut, stress_pattern,
\* ticks_per_minute, lower_stress_bound, upper_stress_bound); previous is
\* None or a Measure.  The outcome is the new object or the exception.
NewMeasureOutcome(structure, previous, cut, pattern, tpm, lo, hi) ==
    LET measure_cut == IF Truthy(cut) THEN cut.v[1] ELSE 0
        span  == IF previous = None THEN Return(<<0>>)
                 ELSE calculate_seconds_from_ticks(previous, previous.length, NoArg)
        tempo == IF tpm.kind = "none" THEN Return(previous.seconds_per_tick)
                 ELSE TempoFromArg(tpm)
    IN  IF span.raised THEN span
        ELSE IF previous = None /\ tpm.kind = "none" THEN Raise("RuntimeError")
        ELSE IF pattern = None /\ previous = None THEN Raise("AttributeError")
        ELSE IF tempo.raised THEN tempo
        ELSE IF ~Truthy(lo) /\ previous = None THEN Raise("AttributeError")
        ELSE IF ~Truthy(hi) /\ previous = None THEN Raise("AttributeError")
        ELSE LET stressor == IF pattern # None THEN Stressor(pattern)
                             ELSE previous.stressor
             IN Return([
                 measure_cut        |-> measure_cut,
                 offset             |-> IF previous = None THEN 0
                                        ELSE previous.offset + span.value[1],
                 stressor           |-> stressor,
                 seconds_per_tick   |-> tempo.value,
                 lower_stress_bound |-> IF Truthy(lo) THEN stress_range(lo)
                                        ELSE previous.lower_stress_bound,
                 upper_stress_bound |-> IF Truthy(hi) THEN stress_range(hi)
                                        ELSE previous.upper_stress_bound,
                 structure          |-> structure,
                 length             |-> MeasureLength(stressor.cumlen, measure_cut) ])

---------------------------------------------------------------------------
(* measure.py: Measure.__iter__, VoiceBoundMeasure *)

\* A score structure is the ordered dict voice name -> chord dict, here a
\* sequence of entries [name, meta, chords]: meta is <<>> when the chord
\* dict has no '_meta' key and <<m>> when it has one, m giving the keys of
\* the '_meta' dict (a key that is absent is None / NoArg); chords is the
\* rest of the chord dict in insertion order, a sequence of
\* [offset, list, notes] (list: the payload is a list of notes, otherwise
\* notes holds the single note).
NoMeta == [stressor |-> None, lower_stress_bound |-> NoArg, upper_stress_bound |-> NoArg]

\* A resolved bound of a Measure (a tuple, or None) as an argument value.
AsArg(bound) == IF bound = None THEN NoArg ELSE TupleArg(bound[1], bound[2])

\* VoiceBoundMeasure.__init__(measure, voice, ch_data, stressor,
\* lower_stress_bound, upper_stress_bound); measure is given by its place
\* in the chain and by the object.
VoiceBoundMeasure(i, measure, voice, ch_data, stressor, lo, hi) ==
    [ measure            |-> i,
      voice              |-> voice,
      stressor           |-> stressor,
      lower_stress_bound |-> IF Truthy(lo) THEN stress_range(lo)
                             ELSE measure.lower_stress_bound,
      upper_stress_bound |-> IF Truthy(hi) THEN stress_range(hi)
                             ELSE measure.upper_stress_bound,
      chords             |-> ch_data ]

\* One pass of the loop body of Measure.__iter__ for the voice entry e: the
\* '_meta' key is popped off the chord dict, a voice stressor is built and
\* compared, the missing properties are filled in with the measure's own
\* attributes, and the VoiceBoundMeasure is built from them.
IterVoice(i, self, e) ==
    LET v_meta   == IF e.meta = <<>> THEN NoMeta ELSE e.meta[1]
        own      == v_meta.stressor # None
        stressor == IF own THEN Stressor(v_meta.stressor) ELSE self.stressor
        lo == IF v_meta.lower_stress_bound.kind = "none"
              THEN AsArg(self.lower_stress_bound) ELSE v_meta.lower_stress_bound
        hi == IF v_meta.upper_stress_bound.kind = "none"
              THEN AsArg(self.upper_stress_bound) ELSE v_meta.upper_stress_bound
    IN  [ popped |-> [e EXCEPT !.meta = <<>>],
          raised |-> own /\ stressor.cumlen # self.stressor.cumlen,
          voice  |-> VoiceBoundMeasure(i, self, e.name, e.chords, stressor, lo, hi) ]

\* Measure.__iter__ run to its end (or to the RuntimeError) from entry k of
\* the structure on: the structure as the loop leaves it, the objects
\* yielded, and whether the loop raised.
RECURSIVE IterMeasure(_, _, _, _, _)
IterMeasure(i, self, structure, k, yielded) ==
    IF k > Len(structure)
    THEN [structure |-> structure, yielded |-> yielded, raised |-> FALSE]
    ELSE LET step == IterVoice(i, self, structure[k])
             next == [structure EXCEPT ![k] = step.popped]
         IN  IF step.raised
             THEN [structure |-> next, yielded |-> yielded, raised |-> TRUE]
             ELSE IterMeasure(i, self, next, k + 1, Append(yielded, step.voice))

\* set(self.chords.values()) of VoiceBoundMeasure.__iter__: the set of the
\* payloads; a list payload is unhashable.
AllOffsets(chords) ==
    IF \E k \in DOMAIN chords : chords[k].list THEN Raise("TypeError")
    ELSE Return({chords[k].notes[1] : k \in DOMAIN chords})

\* VoiceBoundMeasure.__iter__ run to its end: one Chord per item of the
\* chord dict, in its order.  stressor.of(offset, all_offsets) is kept as
\* the call's arguments, calc_span as the measure it is bound to.
VoiceEvents(self, measure) ==
    LET all_offsets == AllOffsets(self.chords)
    IN  IF all_offsets.raised THEN all_offsets
        ELSE Return([k \in DOMAIN self.chords |->
                [ measure_offset |-> measure.offset,
                  offset         |-> self.chords[k].offset,
                  voice          |-> self.voice,
                  stress         |-> [tick    |-> self.chords[k].offset,
                                      offsets |-> all_offsets.value],
                  calc_span      |-> self.measure,
                  chord          |-> self.chords[k].notes ]])

---------------------------------------------------------------------------
(* point.py: Point, Point2D, Point3D *)

\* A point object: its class ("Point", "Point2D" or "Point3D"), x, y, and
\* for a Point3D its symp (None otherwise).
PointObj(cls, x, y, symp) == [cls |-> cls, x |-> x, y |-> y, symp |-> symp]

\* isinstance(p, Point3D)
IsPoint3D(p) == p.cls = "Point3D"

\* Values a point method returns: a number, an object, or a class object.
Num(n) == [type |-> "number", n |-> n]

Obj(p) == [type |-> "object", obj |-> p]

Class(name) == [type |-> "class", name |-> name]

\* Point3D.__init__(x, y, symp=symp): a missing envelope is refused; then
\* super(Point, self) is object, whose __init__ takes no arguments (and
\* 'symp' is no slot of the class).
NewPoint3D(x, y, symp) ==
    IF symp = None THEN Raise("AttributeError") ELSE Raise("TypeError")

\* Point2D(x, y)
NewPoint2D(x, y) == Return(PointObj("Point2D", x, y, None))

\* Point.__getitem__(n)
Point_getitem(self, n) ==
    IF n > 1 THEN Return(Class("IndexError"))
    ELSE Return(Num(IF n # 0 THEN self.y ELSE self.x))

\* Point3D.__getitem__(n)
Point3D_getitem(self, n) ==
    IF n = 2 THEN Return(Obj(self.symp)) ELSE Point_getitem(self, n)

\* p[n], dispatched on the class of p
GetItem(p, n) == IF IsPoint3D(p) THEN Point3D_getitem(p, n) ELSE Point_getitem(p, n)

\* len(p), dispatched on the class of p
PointLen(p) == IF IsPoint3D(p) THEN 3 ELSE 2

\* (1 - dist) * p + dist * q for dist = num / den; the coordinates drawn are
\* multiples of den.
Blend(dist, p, q) == ((dist.den - dist.num) * p + dist.num * q) \div dist.den

\* Point.weighted_average(a, dist, b).  Envelopes are points, which are
\* true (their __len__ is 2 or 3), so "if symp" asks whether there is one.
RECURSIVE weighted_average(_, _, _)
weighted_average(a, dist, b) ==
    LET x == Blend(dist, a.x, b.x)
        y == Blend(dist, a.y, b.y)
        symp == IF IsPoint3D(a) /\ IsPoint3D(b)
                THEN weighted_average(a.symp, dist, b.symp)
                ELSE Return(IF IsPoint3D(a) THEN a.symp
                            ELSE IF IsPoint3D(b) THEN b.symp ELSE None)
    IN  IF symp.raised THEN symp
        ELSE IF symp.value # None THEN NewPoint3D(x, y, symp.value)
        ELSE NewPoint2D(x, y)

---------------------------------------------------------------------------
(* modulation.py: Modulation *)

\* Modulation.__init__(frequency, base_share, mod_share, shift, overdrive,
\* factor): the attributes of the new object.  Only one of self.frequency
\* and self.factor is ever assigned; the other attribute does not exist
\* (None here).  Line 21 reads "func or lambda ...", which is taken as
\* func or (lambda ...).
NewModulation(frequency, base_share, mod_share, shift, overdrive, factor) ==
    LET attrs == [ base_share |-> base_share, mod_share |-> mod_share,
                   shift |-> shift, overdrive |-> overdrive,
                   frequency |-> None, factor |-> None ]
    IN  IF Truthy(frequency)
        THEN Return([attrs EXCEPT !.frequency =
                <<frequency.v[1] * (IF Truthy(factor) THEN factor.v[1] ELSE 1)>>])
        ELSE IF Truthy(factor)
        THEN Return([attrs EXCEPT !.factor = <<factor.v[1]>>])
        ELSE Raise("Exception")

\* f = (self.frequency or self.factor * freq) of Modulation.modulate: the
\* attribute self.frequency is read first.
ModFrequency(self, freq) ==
    IF self.frequency = None THEN Raise("AttributeError")
    ELSE IF self.frequency[1] # 0 THEN Return(self.frequency[1])
    ELSE IF self.factor = None THEN Raise("AttributeError")
    ELSE IF freq.kind = "none" THEN Raise("TypeError")
    ELSE Return(self.factor[1] * freq.v[1])

\* Modulation.modulate(iseq, freq): the curve o * (m * (fn + 1) / 2 + b) /
\* (m + b), kept as the call fn = function(f, iseq, s) and the exact
\* fraction o = (m + b) / (2 * b) + 0.5 (or 1) with the shares it scales.
modulate(self, iseq, freq) ==
    LET b == self.base_share
        m == self.mod_share
        f == ModFrequency(self, freq)
        s == self.shift
        o == IF self.overdrive THEN <<m + 2 * b, 2 * b>> ELSE <<1, 1>>
    IN  IF f.raised THEN f
        ELSE Return([o |-> o, m |-> m, b |-> b,
                     fn |-> [f |-> f.value, l |-> iseq, s |-> s]])

---------------------------------------------------------------------------
(* Bounds and the arguments drawn *)

MaxMeasures == 2

MaxVoiceMeasures == 2

MaxIterations == 2

MaxTick == 3

\* measure_cut: absent, a cut from the end, a minimum offset.
Cuts == {NoArg, IntArg(-1), IntArg(1)}

\* stress_pattern: absent, "1;1", "2;2" (as their segment spans).
Patterns == {None, <<1, 1>>, <<2, 2>>}

\* ticks_per_minute: absent, 120, "60-120", [240, 15], (60, 120).
Tempi == {NoArg, IntArg(120), StrArg(60, 120), ListArg(240, 15), TupleArg(60, 120)}

\* lower_stress_bound / upper_stress_bound along a chain: absent, 1.
ChainBounds == {NoArg, IntArg(1)}

\* length argument of calculate_seconds_from_ticks: absent, 0, 1.
Lengths == {NoArg, IntArg(0), IntArg(1)}

Chord(offset, note) == [offset |-> offset, list |-> FALSE, notes |-> <<note>>]

ChordList(offset, notes) == [offset |-> offset, list |-> TRUE, notes |-> notes]

Voice(name, meta, chords) == [name |-> name, meta |-> meta, chords |-> chords]

\* The structures drawn: a voice without '_meta'; a voice overriding its
\* lower bound, its chords authored out of tick order; two voices, one with
\* its own stressor "2" and upper bound "2-4" and one playing a chord of two
\* notes; a voice whose bounds are given as tuples; a voice whose stressor
\* "1" has another length than a measure of "1;1" or "2;2".
Structures == {
    << Voice("v", <<>>, << Chord(0, 60), Chord(1, 64) >>) >>,
    << Voice("v", << [NoMeta EXCEPT !.lower_stress_bound = IntArg(3)] >>,
             << Chord(1, 62), Chord(0, 60) >>) >>,
    << Voice("v", << [NoMeta EXCEPT !.stressor = <<2>>,
                                    !.upper_stress_bound = StrArg(2, 4)] >>,
             << Chord(0, 60) >>),
       Voice("w", <<>>, << ChordList(0, <<60, 64>>), Chord(1, 62) >>) >>,
    << Voice("v", << [NoMeta EXCEPT !.lower_stress_bound = TupleArg(1, 2),
                                    !.upper_stress_bound = ListArg(2, 4)] >>,
             << Chord(0, 0), Chord(1, 1) >>) >>,
    << Voice("w", <<>>, << Chord(0, 60) >>),
       Voice("v", << [NoMeta EXCEPT !.stressor = <<1>>] >>, << Chord(0, 62) >>) >> }

\* Bounds of a measure that is iterated: absent, 1, "2-4", (1, 2).
VoiceBounds == {NoArg, IntArg(1), StrArg(2, 4), TupleArg(1, 2)}

Coords == {0, 2}

Dists == {[num |-> n, den |-> 2] : n \in 0..2}

Points2D == {PointObj(c, x, y, None) : c \in {"Point", "Point2D"}, x \in Coords, y \in Coords}

\* Objects for which isinstance(p, Point3D) holds and that carry x, y and
\* symp (Point3D.__init__ itself never completes, see NewPoint3D).
Points3D == {PointObj("Point3D", x, y, e) : x \in Coords, y \in Coords,
                e \in {PointObj("Point2D", 0, 2, None), PointObj("Point2D", 2, 2, None)}}

Points == Points2D \cup Points3D

Indexes == {0, 1, 2}

Shares == {1, 3}

Frequencies == {NoArg, IntArg(0), IntArg(2), IntArg(5)}

Factors == {NoArg, IntArg(2), IntArg(3)}

---------------------------------------------------------------------------
(* The operations *)

Init ==
    /\ measures = <<>>
    /\ result = [op |-> "none"]
    /\ iterLog = <<>>
    /\ mod = None

\* Measure(structure, stage, previous, ...) with previous the last measure
\* of the chain, or None for the first.
NewMeasure(limit, structure, cut, pattern, tpm, lo, hi) ==
    /\ Len(measures) < limit
    /\ LET previous == IF measures = <<>> THEN None ELSE measures[Len(measures)]
           out == NewMeasureOutcome(structure, previous, cut, pattern, tpm, lo, hi)
       IN  /\ measures' = IF out.raised THEN measures ELSE Append(measures, out.value)
           /\ result' = [ op |-> "Measure", ticks_per_minute |-> tpm,
                          raised |-> out.raised, exc |-> out.exc ]
    /\ UNCHANGED <<iterLog, mod>>

\* measure.calculate_seconds_from_ticks(offset, length) on the measure built
\* last.
CalcSeconds(offset, length) ==
    /\ measures # <<>>
    /\ result' = [ op |-> "calculate_seconds_from_ticks", self |-> Len(measures),
                   offset |-> offset, length |-> length,
                   out |-> calculate_seconds_from_ticks(
                               measures[Len(measures)], offset, length) ]
    /\ UNCHANGED <<measures, iterLog, mod>>

\* list(measure) for measure i of the chain: the loop pops the '_meta' keys
\* off the chord dicts of the structure the measure refers to.
IterateMeasure(i) ==
    /\ Len(iterLog) < MaxIterations
    /\ LET r == IterMeasure(i, measures[i], measures[i].structure, 1, <<>>)
       IN  /\ measures' = [measures EXCEPT ![i].structure = r.structure]
           /\ iterLog' = Append(iterLog,
                  [ measure |-> i, before |-> measures[i].structure,
                    after |-> r.structure, raised |-> r.raised,
                    yielded |-> r.yielded ])
           /\ result' = [op |-> "Measure.__iter__", self |-> i, raised |-> r.raised]
    /\ UNCHANGED mod

\* list(voice) for the voice timeline that iteration k yielded as its v-th.
IterateVoice(k, v) ==
    /\ LET self == iterLog[k].yielded[v]
       IN  result' = [ op |-> "VoiceBoundMeasure.__iter__", log |-> k, voice |-> v,
                       out |-> VoiceEvents(self, measures[self.measure]) ]
    /\ UNCHANGED <<measures, iterLog, mod>>

PointGetItem(p, n) ==
    /\ result' = [op |-> "Point.__getitem__", self |-> p, n |-> n, out |-> GetItem(p, n)]
    /\ UNCHANGED <<measures, iterLog, mod>>

PointLength(p) ==
    /\ result' = [op |-> "Point.__len__", self |-> p, out |-> Return(PointLen(p))]
    /\ UNCHANGED <<measures, iterLog, mod>>

PointNew3D(x, y, symp) ==
    /\ result' = [op |-> "Point3D", x |-> x, y |-> y, symp |-> symp,
                  out |-> NewPoint3D(x, y, symp)]
    /\ UNCHANGED <<measures, iterLog, mod>>

PointWeightedAverage(a, dist, b) ==
    /\ result' = [op |-> "Point.weighted_average", a |-> a, dist |-> dist, b |-> b,
                  out |-> weighted_average(a, dist, b)]
    /\ UNCHANGED <<measures, iterLog, mod>>

ModulationNew(frequency, base_share, mod_share, shift, overdrive, factor) ==
    /\ LET out == NewModulation(frequency, base_share, mod_share, shift, overdrive, factor)
       IN  /\ mod' = IF out.raised THEN mod
                     ELSE [self |-> out.value, frequency |-> frequency, factor |-> factor]
           /\ result' = [op |-> "Modulation", frequency |-> frequency,
                         factor |-> factor, raised |-> out.raised, exc |-> out.exc]
    /\ UNCHANGED <<measures, iterLog>>

ModulationModulate(iseq, freq) ==
    /\ mod # None
    /\ result' = [op |-> "Modulation.modulate", iseq |-> iseq, freq |-> freq,
                  out |-> modulate(mod.self, iseq, freq)]
    /\ UNCHANGED <<measures, iterLog, mod>>

\* A chain of measures and the timing queries on it.
Next ==
    \/ \E cut \in Cuts, pattern \in Patterns, tpm \in Tempi,
          lo \in ChainBounds, hi \in ChainBounds :
            NewMeasure(MaxMeasures, <<>>, cut, pattern, tpm, lo, hi)
    \/ \E offset \in 0..MaxTick, length \in Lengths : CalcSeconds(offset, length)

Spec == Init /\ [][Next]_vars

\* Measures with a score structure, their iteration and that of the voice
\* timelines they yield.
NextVoices ==
    \/ \E structure \in Structures, pattern \in {None, <<1, 1>>},
          tpm \in {NoArg, IntArg(120)}, lo \in VoiceBounds, hi \in VoiceBounds :
            NewMeasure(MaxVoiceMeasures, structure, NoArg, pattern, tpm, lo, hi)
    \/ \E i \in DOMAIN measures : IterateMeasure(i)
    \/ \E k \in DOMAIN iterLog : \E v \in DOMAIN iterLog[k].yielded : IterateVoice(k, v)

SpecVoices == Init /\ [][NextVoices]_vars

NextPoint ==
    \/ \E p \in Points, n \in Indexes : PointGetItem(p, n)
    \/ \E p \in Points : PointLength(p)
    \/ \E x \in Coords, y \in Coords, symp \in Points2D \cup {None} : PointNew3D(x, y, symp)
    \/ \E a \in Points, dist \in Dists, b \in Points : PointWeightedAverage(a, dist, b)

SpecPoint == Init /\ [][NextPoint]_vars

NextModulation ==
    \/ \E frequency \in Frequencies, factor \in Factors, base_share \in Shares,
          mod_share \in Shares, overdrive \in BOOLEAN :
            ModulationNew(frequency, base_share, mod_share, 0, overdrive, factor)
    \/ \E freq \in {NoArg, IntArg(7)} : ModulationModulate(1, freq)

SpecModulation == Init /\ [][NextModulation]_vars

---------------------------------------------------------------------------
(* The properties *)

\* The tempo curve as the data model states it: seconds(t) is base * t for
\* a growth factor of 1 and base * (g^(t/cumlen) - 1) / (g^(1/cumlen) - 1)
\* otherwise.
CurveSeconds(m, t) ==
    LET base == m.seconds_per_tick[1]
        g    == m.seconds_per_tick[2]
        root == Root(g, m.stressor.cumlen)
    IN  IF g = 1 THEN base * t ELSE (base * (Pow(root, t) - 1)) \div (root - 1)

\* The tempo curve a ticks_per_minute of n, "a-b" or (a, b) stands for.
CurveOf(tpm) ==
    IF tpm.kind = "int" THEN <<240 \div tpm.v[1], 1>>
    ELSE <<240 \div tpm.v[1], tpm.v[1] \div tpm.v[2]>>

\* The bound pair a bound of n, "a-b" or (a, b) stands for.
PairOf(bound) ==
    IF bound.kind = "int" THEN <<bound.v[1], 1>>
    ELSE <<bound.v[1], bound.v[2] \div bound.v[1]>>

\* offset is a valid tick offset of measure m.
ValidOffset(m, offset) ==
    /\ offset <= m.length
    /\ ~(m.measure_cut > 0 /\ offset < m.measure_cut)

\* C1: the first measure of a chain starts at 0 and every later measure
\* starts where the one before it ends: at that measure's offset plus the
\* seconds its tempo curve gives to its full tick length, the length being
\* the stressor's cumulative length less a negative measure_cut.
C1_MeasuresAbut ==
    \A n \in DOMAIN measures :
        /\ measures[n].length =
              measures[n].stressor.cumlen
                - (IF measures[n].measure_cut < 0 THEN -measures[n].measure_cut ELSE 0)
        /\ n = 1 => measures[n].offset = 0
        /\ n > 1 => measures[n].offset =
              measures[n-1].offset + CurveSeconds(measures[n-1], measures[n-1].length)

\* A second measure that follows a measure cut at its end and played under
\* a changing tempo, and so starts later than 0.
C1_Witness ==
    /\ Len(measures) > 1
    /\ measures[1].measure_cut < 0
    /\ measures[1].seconds_per_tick[2] # 1
    /\ measures[2].offset > 0

\* C2: every measure that was constructed has a tempo curve, the one its own
\* ticks_per_minute (an integer, an "a-b" string or a pair) stands for, or
\* else the previous measure's; and the first measure of a chain was given a
\* ticks_per_minute.
C2_TempoResolved ==
    /\ \A n \in DOMAIN measures : measures[n].seconds_per_tick # None
    /\ (result.op = "Measure" /\ ~result.raised) =>
          LET n == Len(measures)
          IN  /\ n = 1 => result.ticks_per_minute.kind # "none"
              /\ measures[n].seconds_per_tick =
                    IF result.ticks_per_minute.kind = "none"
                    THEN measures[n-1].seconds_per_tick
                    ELSE CurveOf(result.ticks_per_minute)

\* C5: calculate_seconds_from_ticks fails with a range error (ValueError),
\* returning nothing, for a tick offset beyond the measure's length and for
\* one below a positive measure_cut.
C5_RangeError ==
    result.op = "calculate_seconds_from_ticks" =>
        (~ValidOffset(measures[result.self], result.offset) =>
            /\ result.out.raised
            /\ result.out.exc = "ValueError")

\* C6 as stated: for a valid tick offset the start returned is the absolute
\* start, the measure's offset plus seconds(offset); with a tick length
\* the result is the pair (start, seconds(offset+length) - seconds(offset)),
\* without one the start alone.  (Read for measures that have a tempo curve,
\* and leaving open what a tick length of 0 returns.)
C6_AbsoluteStart ==
    result.op = "calculate_seconds_from_ticks" =>
        LET m == measures[result.self]
        IN  (ValidOffset(m, result.offset) /\ m.seconds_per_tick # None) =>
              /\ ~result.out.raised
              /\ result.out.value[1] = m.offset + CurveSeconds(m, result.offset)
              /\ result.length.kind = "none" => Len(result.out.value) = 1
              /\ Truthy(result.length) =>
                    result.out.value = << result.out.value[1],
                        CurveSeconds(m, result.offset + result.length.v[1])
                          - CurveSeconds(m, result.offset) >>

\* C6 as amended: for a valid tick offset of a measure whose tempo curve is
\* set, the start returned is seconds(offset), counted from the measure's
\* own start; with a tick length other than 0 the result is the pair
\* (start, seconds(offset+length) - seconds(offset)), with no length or a
\* length of 0 the start alone.  On a measure left without a tempo curve
\* the call raises AttributeError.
C6_RelativeStart ==
    result.op = "calculate_seconds_from_ticks" =>
        LET m == measures[result.self]
        IN  ValidOffset(m, result.offset) =>
              IF m.seconds_per_tick = None
              THEN result.out.raised /\ result.out.exc = "AttributeError"
              ELSE /\ ~result.out.raised
                   /\ result.out.value[1] = CurveSeconds(m, result.offset)
                   /\ IF result.length.kind = "int" /\ result.length.v[1] # 0
                      THEN result.out.value = << result.out.value[1],
                             CurveSeconds(m, result.offset + result.length.v[1])
                               - CurveSeconds(m, result.offset) >>
                      ELSE Len(result.out.value) = 1

\* A start and a duration returned for a tick offset inside a measure that
\* itself starts later than 0.
C6_Witness ==
    /\ result.op = "calculate_seconds_from_ticks"
    /\ ~result.out.raised
    /\ measures[result.self].offset > 0
    /\ result.offset > 0
    /\ Len(result.out.value) = 2
    /\ result.out.value[2] > 0

\* C3: iterating a measure leaves its structure as it was, and every
\* iteration of the same measure yields the same voice timelines.
C3_IterationPure ==
    \A k \in DOMAIN iterLog :
        /\ iterLog[k].after = iterLog[k].before
        /\ \A j \in DOMAIN iterLog :
              iterLog[j].measure = iterLog[k].measure =>
                  /\ iterLog[j].raised = iterLog[k].raised
                  /\ iterLog[j].yielded = iterLog[k].yielded

\* C4: iterating a voice timeline emits one event per chord entry, in the
\* mapping's order, each with intensity stressor.of(tick offset, the set of
\* all tick offsets of the mapping).
C4_OffsetsAreKeys ==
    result.op = "VoiceBoundMeasure.__iter__" =>
        LET chords == iterLog[result.log].yielded[result.voice].chords
            keys   == {chords[k].offset : k \in DOMAIN chords}
        IN  /\ ~result.out.raised
            /\ DOMAIN result.out.value = DOMAIN chords
            /\ \A k \in DOMAIN chords :
                  /\ result.out.value[k].offset = chords[k].offset
                  /\ result.out.value[k].stress =
                        [tick |-> chords[k].offset, offsets |-> keys]

\* C10: every voice timeline a measure yields has a lower and an upper bound
\* pair: the pair its own '_meta' override stands for (n: (n, 1); "a-b" or
\* (a, b): (a, b/a)), and without an override the measure's own pair.
C10_VoiceBounds ==
    \A k \in DOMAIN iterLog : \A v \in DOMAIN iterLog[k].yielded :
        LET e    == iterLog[k].before[v]
            meta == IF e.meta = <<>> THEN NoMeta ELSE e.meta[1]
            m    == measures[iterLog[k].measure]
            vb   == iterLog[k].yielded[v]
        IN  /\ vb.lower_stress_bound # None
            /\ vb.upper_stress_bound # None
            /\ vb.lower_stress_bound =
                  IF meta.lower_stress_bound.kind # "none"
                  THEN PairOf(meta.lower_stress_bound) ELSE m.lower_stress_bound
            /\ vb.upper_stress_bound =
                  IF meta.upper_stress_bound.kind # "none"
                  THEN PairOf(meta.upper_stress_bound) ELSE m.upper_stress_bound

\* p and q are the same point: x, y, dimensionality and envelope.
SamePoint(p, q) ==
    /\ p.x = q.x
    /\ p.y = q.y
    /\ IsPoint3D(p) = IsPoint3D(q)
    /\ p.symp = q.symp

\* C7: p[0] is x and p[1] is y; p[2] is the envelope of a 3-D point and
\* raises IndexError on a 2-D point; len(p) is 2 or 3 with the dimension.
C7_IndexContract ==
    /\ result.op = "Point.__getitem__" =>
          CASE result.n = 0 -> result.out = Return(Num(result.self.x))
            [] result.n = 1 -> result.out = Return(Num(result.self.y))
            [] OTHER -> IF IsPoint3D(result.self)
                        THEN result.out = Return(Obj(result.self.symp))
                        ELSE result.out.raised /\ result.out.exc = "IndexError"
    /\ result.op = "Point.__len__" =>
          result.out = Return(IF IsPoint3D(result.self) THEN 3 ELSE 2)

C9_FrequencyResolved ==
    /\ result.op = "Modulation" =>
          ((result.frequency.kind = "none" /\ result.factor.kind = "none")
              => result.raised)
    /\ result.op = "Modulation.modulate" =>
          /\ Truthy(mod.frequency) =>
                /\ ~result.out.raised
                /\ result.out.value.fn.f = mod.frequency.v[1]
          /\ (~Truthy(mod.frequency) /\ Truthy(mod.factor) /\ Truthy(result.freq)) =>
                /\ ~result.out.raised
                /\ result.out.value.fn.f = mod.factor.v[1] * result.freq.v[1]

===========================================================================
